---- MODULE Spec2Model ----
(***************************************************************************)
(* A model of package logt (src/logt.go): the Logger facade, the           *)
(* StdLogget formatting engine, the pooled buffers and the caller lookup.  *)
(* Text is a sequence of one-character strings, so that slicing, trimming  *)
(* and searching are computed as the code computes them.                   *)
(***************************************************************************)
EXTENDS Integers, Sequences, FiniteSets, TLC

\* ------------------------------------------------------------- bounds
MaxArgs == 2
MaxCalls == 2
MaxBuffers == 3

\* ---------------------------------------------------- flag constants
Ldate == 1
Ltime == 2
Lmicroseconds == 4
Llongfile == 8
Lshortfile == 16
LUTC == 32
LCaller == 64
LstdFlags == Ldate + Ltime

AllFlags == 0 .. 127

\* flag & bit != 0, for a single bit
HasFlag(flag, bit) == (flag \div bit) % 2 = 1
\* flag & (b1|b2|...) != 0
HasAny(flag, bits) == \E b \in bits : HasFlag(flag, b)

\* ------------------------------------------------------- text helpers
Digit(d) == <<"0", "1", "2", "3", "4", "5", "6", "7", "8", "9">>[d + 1]

RECURSIVE Itoa(_)
Itoa(n) == IF n < 10 THEN <<Digit(n)>> ELSE Itoa(n \div 10) \o <<Digit(n % 10)>>

RECURSIVE ZeroPad(_, _)
ZeroPad(s, width) == IF Len(s) >= width THEN s ELSE ZeroPad(<<"0">> \o s, width)

\* strings.LastIndex(s, c) for a one-character c: 0-based, -1 when absent
LastIndex(s, c) ==
  LET hits == {i \in 1 .. Len(s) : s[i] = c}
  IN  IF hits = {} THEN -1 ELSE (CHOOSE i \in hits : \A j \in hits : j <= i) - 1

\* s[from:] with a 0-based from
SliceFrom(s, from) == SubSeq(s, from + 1, Len(s))

RECURSIVE TrimLeft(_)
TrimLeft(s) == IF s # <<>> /\ Head(s) = " " THEN TrimLeft(Tail(s)) ELSE s

RECURSIVE TrimRight(_)
TrimRight(s) ==
  IF s # <<>> /\ s[Len(s)] = " " THEN TrimRight(SubSeq(s, 1, Len(s) - 1)) ELSE s

\* strings.TrimSpace, over the one white-space character the layouts hold
TrimSpace(s) == TrimRight(TrimLeft(s))

HasPrefix(s, p) == Len(s) >= Len(p) /\ SubSeq(s, 1, Len(p)) = p

\* whether sub occurs in s as a contiguous run
Contains(s, sub) ==
  \E i \in 1 .. (Len(s) - Len(sub) + 1) : SubSeq(s, i, i + Len(sub) - 1) = sub

\* ------------------------------------------------------------ values
\* An interface{} argument: its dynamic type and the text %v gives it.
StrVal(s) == [t |-> "string", s |-> s]
IntVal(n) == [t |-> "int", s |-> Itoa(n)]
ErrVal(s) == [t |-> "error", s |-> s]

\* reflect.TypeOf(v).String()
TypeName(v) ==
  CASE v.t = "string" -> <<"s","t","r","i","n","g">>
    [] v.t = "int" -> <<"i","n","t">>
    [] v.t = "error" -> <<"*","e","r","r","o","r","s",".","e","r","r","o","r","S","t","r","i","n","g">>

\* _, ok := av.(error)
IsError(v) == v.t = "error"

\* ---------------------------------------------------------- fmt model
\* fmt's badVerb: %!verb(type=value)
BadVerb(verb, tname, text) == <<"%","!">> \o <<verb>> \o <<"(">> \o tname \o <<"=">> \o text \o <<")">>

\* fmt.printArg for the verbs v, s, d over strings, ints and errors.errorString
PrintArg(v, verb) ==
  CASE verb = "v" -> v.s
    [] verb # "v" /\ v.t = "string" ->
         IF verb = "s" THEN v.s ELSE BadVerb(verb, <<"s","t","r","i","n","g">>, v.s)
    [] verb # "v" /\ v.t = "int" ->
         IF verb = "d" THEN v.s ELSE BadVerb(verb, <<"i","n","t">>, v.s)
    [] verb # "v" /\ v.t = "error" ->
         IF verb = "s" THEN v.s ELSE <<"&","{">> \o BadVerb(verb, <<"s","t","r","i","n","g">>, v.s) \o <<"}">>

RECURSIVE ExtraArgs(_, _)
ExtraArgs(a, n) ==
  IF n > Len(a) THEN <<>>
  ELSE TypeName(a[n]) \o <<"=">> \o a[n].s
       \o (IF n < Len(a) THEN <<","," ">> ELSE <<>>) \o ExtraArgs(a, n + 1)

\* fmt.(*pp).doPrintf from operand n on: literal text, %%, a verb with its
\* operand, %!verb(MISSING), %!(NOVERB), and the %!(EXTRA ...) tail.
RECURSIVE DoPrintf(_, _, _)
DoPrintf(format, a, n) ==
  IF format = <<>>
  THEN IF n <= Len(a) THEN <<"%","!","(","E","X","T","R","A"," ">> \o ExtraArgs(a, n) \o <<")">> ELSE <<>>
  ELSE IF Head(format) # "%"
  THEN <<Head(format)>> \o DoPrintf(Tail(format), a, n)
  ELSE LET r == Tail(format)
           \* a '.' after the percent sign is an (empty) precision
           afterPrec == IF r # <<>> /\ Head(r) = "." THEN Tail(r) ELSE r
       IN  IF afterPrec = <<>>
           THEN <<"%","!","(","N","O","V","E","R","B",")">> \o DoPrintf(<<>>, a, n)
           ELSE LET verb == Head(afterPrec)
                    rest == Tail(afterPrec)
                IN  IF verb = "%" THEN <<"%">> \o DoPrintf(rest, a, n)
                    ELSE IF n > Len(a)
                    THEN <<"%","!">> \o <<verb>> \o <<"(","M","I","S","S","I","N","G",")">> \o DoPrintf(rest, a, n)
                    ELSE PrintArg(a[n], verb) \o DoPrintf(rest, a, n + 1)

Sprintf(format, a) == DoPrintf(format, a, 1)

\* fmt.(*pp).doPrint: a space between operands when neither is a string
RECURSIVE DoPrint(_, _)
DoPrint(a, n) ==
  IF n > Len(a) THEN <<>>
  ELSE (IF n > 1 /\ a[n].t # "string" /\ a[n - 1].t # "string" THEN <<" ">> ELSE <<>>)
       \o a[n].s \o DoPrint(a, n + 1)

Sprint(a) == DoPrint(a, 1)

\* ---------------------------------------------------------- time model
\* An instant is its UTC civil reading; the process's zone is hours east.
\* Days stay inside one month (the clocks below are mid-month).
CivilAt(now, offset) ==
  LET h == now.hour + offset
  IN  IF h < 0 THEN [now EXCEPT !.hour = h + 24, !.day = now.day - 1]
      ELSE IF h >= 24 THEN [now EXCEPT !.hour = h - 24, !.day = now.day + 1]
      ELSE [now EXCEPT !.hour = h]

\* time.Time.Format over the reference-time chunks the layouts hold
RECURSIVE FormatTime(_, _)
FormatTime(layout, c) ==
  IF layout = <<>> THEN <<>>
  ELSE IF HasPrefix(layout, <<"2","0","0","6">>)
  THEN ZeroPad(Itoa(c.year), 4) \o FormatTime(SliceFrom(layout, 4), c)
  ELSE IF HasPrefix(layout, <<"0","1">>)
  THEN ZeroPad(Itoa(c.month), 2) \o FormatTime(SliceFrom(layout, 2), c)
  ELSE IF HasPrefix(layout, <<"0","2">>)
  THEN ZeroPad(Itoa(c.day), 2) \o FormatTime(SliceFrom(layout, 2), c)
  ELSE IF HasPrefix(layout, <<"1","5">>)
  THEN ZeroPad(Itoa(c.hour), 2) \o FormatTime(SliceFrom(layout, 2), c)
  ELSE IF HasPrefix(layout, <<"0","4">>)
  THEN ZeroPad(Itoa(c.min), 2) \o FormatTime(SliceFrom(layout, 2), c)
  ELSE IF HasPrefix(layout, <<"0","5">>)
  THEN ZeroPad(Itoa(c.sec), 2) \o FormatTime(SliceFrom(layout, 2), c)
  ELSE IF HasPrefix(layout, <<".","0","0","0","0","0","0">>)
  THEN <<".">> \o ZeroPad(Itoa(c.usec), 6) \o FormatTime(SliceFrom(layout, 7), c)
  ELSE <<Head(layout)>> \o FormatTime(Tail(layout), c)

\* ---------------------------------------------------------- path model
\* filepath.Split: the directory with its trailing slash, and the file
Split(path) ==
  LET i == LastIndex(path, "/")
  IN  [dir |-> SubSeq(path, 1, i + 1), file |-> SliceFrom(path, i + 1)]

RECURSIVE StripSlashes(_)
StripSlashes(p) ==
  IF p # <<>> /\ p[Len(p)] = "/" THEN StripSlashes(SubSeq(p, 1, Len(p) - 1)) ELSE p

\* filepath.Base
Base(path) ==
  IF path = <<>> THEN <<".">>
  ELSE LET p == StripSlashes(path)
           q == SliceFrom(p, LastIndex(p, "/") + 1)
       IN  IF q = <<>> THEN <<"/">> ELSE q

\* filepath.Join(dir, file) for a dir that Base returned (one element, "." or
\* "/") and a file without a slash: the two joined by "/" and cleaned
Join(dir, file) ==
  IF file = <<>> THEN dir
  ELSE IF dir = <<".">> THEN file
  ELSE IF dir = <<"/">> THEN <<"/">> \o file
  ELSE dir \o <<"/">> \o file

\* -------------------------------------------------------- caller lookup
NoFrame == [funcName |-> <<>>, fileName |-> <<>>, fileLine |-> 0, callerErr |-> "N/A"]

\* FuncName with strings.Index in place of strings.LastIndex
FuncNameFirstDot(name) ==
  LET dots == {i \in 1 .. Len(name) : name[i] = "."}
      ix == IF dots = {} THEN -1 ELSE (CHOOSE i \in dots : \A j \in dots : i <= j) - 1
  IN  IF ix > 0 /\ (ix + 1) < Len(name) THEN SliceFrom(name, ix + 1) ELSE name

\* the tail of here: the name after the last '.', when one follows it
FuncName(name) ==
  LET ix == LastIndex(name, ".")
  IN  IF ix > 0 /\ (ix + 1) < Len(name) THEN SliceFrom(name, ix + 1) ELSE name

\* here(skip...): stack[1] is here's own frame, the frame runtime.Caller(0) names,
\* and runtime.Caller(sk) fails when the stack holds no frame sk.
here(skip, stack) ==
  LET sk == IF Len(skip) > 0 /\ skip[1] > 1 THEN skip[1] ELSE 1
  IN  IF sk + 1 > Len(stack) THEN NoFrame
      ELSE LET fr == stack[sk + 1]
               sp == Split(fr.file)
           IN  [funcName |-> FuncName(fr.fn),
                fileName |-> Join(Base(sp.dir), sp.file),
                fileLine |-> fr.line,
                callerErr |-> "nil"]

\* --------------------------------------------------------------- facade
PlainOps == {"Print", "Fatal", "Panic"}
FormatOps == {"Printf", "Fatalf", "Panicf"}
LineOps == {"Println", "Fatalln", "Panicln"}
PrintOps == {"Print", "Printf", "Println"}
FatalOps == {"Fatal", "Fatalf", "Fatalln"}
PanicOps == {"Panic", "Panicf", "Panicln"}
AllOps == PrintOps \cup FatalOps \cup PanicOps

OpText(op) ==
  CASE op = "Print" -> <<"P","r","i","n","t">> [] op = "Printf" -> <<"P","r","i","n","t","f">> [] op = "Println" -> <<"P","r","i","n","t","l","n">>
    [] op = "Fatal" -> <<"F","a","t","a","l">> [] op = "Fatalf" -> <<"F","a","t","a","l","f">> [] op = "Fatalln" -> <<"F","a","t","a","l","l","n">>
    [] op = "Panic" -> <<"P","a","n","i","c">> [] op = "Panicf" -> <<"P","a","n","i","c","f">> [] op = "Panicln" -> <<"P","a","n","i","c","l","n">>

\* the line of the l.out.Printf call in each Logger method
MethodLine(op) ==
  CASE op = "Fatal" -> 54 [] op = "Fatalf" -> 58 [] op = "Fatalln" -> 63
    [] op = "Panic" -> 68 [] op = "Panicf" -> 72 [] op = "Panicln" -> 77
    [] op = "Print" -> 82 [] op = "Printf" -> 85 [] op = "Println" -> 89

\* the line of the std.<op> call in each package-level function
PackageLine(op) ==
  CASE op = "Fatal" -> 103 [] op = "Fatalf" -> 104 [] op = "Fatalln" -> 105
    [] op = "Panic" -> 106 [] op = "Panicf" -> 107 [] op = "Panicln" -> 108
    [] op = "Print" -> 109 [] op = "Printf" -> 110 [] op = "Println" -> 111

SourceFile == <<"/","g","o","/","l","o","g","t","/","l","o","g","t",".","g","o">>

\* The frames below the user's code when here runs inside StdLogget.Printf:
\* here, StdLogget.Printf, the Logger method and, for a package-level call,
\* the package-level function that forwards to std.
EngineFrames(op, entry) ==
  << [fn |-> <<"l","o","g","t",".","h","e","r","e">>, file |-> SourceFile, line |-> 135],
     [fn |-> <<"l","o","g","t",".","(","*","S","t","d","L","o","g","g","e","t",")",".","P","r","i","n","t","f">>, file |-> SourceFile, line |-> 233],
     [fn |-> <<"l","o","g","t",".","(","*","L","o","g","g","e","r",")",".">> \o OpText(op), file |-> SourceFile, line |-> MethodLine(op)] >>
  \o (IF entry = "package"
      THEN << [fn |-> <<"l","o","g","t",".">> \o OpText(op), file |-> SourceFile, line |-> PackageLine(op)] >>
      ELSE << >>)

\* what the Logger method hands to l.out.Printf
PrintfFormat(op, format) == IF op \in FormatOps THEN format ELSE <<>>
PrintfArgs(op, v) == IF op \in LineOps THEN Append(v, StrVal(<<"\n">>)) ELSE v

\* the operand of panic() in Panic, Panicf and Panicln
PanicValue(op, format, v) ==
  IF op = "Panicf" THEN Sprintf(format, v) ELSE Sprint(PrintfArgs(op, v))

\* --------------------------------------------------------------- engine
RECURSIVE anyErrFrom(_, _)
anyErrFrom(v, i) ==
  IF i > Len(v) THEN FALSE
  ELSE IF IsError(v[i]) THEN TRUE
  ELSE anyErrFrom(v, i + 1)

\* anyErr looking at the first argument alone
anyErrFirst(v) == Len(v) > 0 /\ IsError(v[1])

anyErr(v) == anyErrFrom(v, 1)

TagError == <<"[","e","r","r","o","r","]">>
TagInfo == <<"[","i","n","f","o"," ","]">>
FgHiRed == 91
FgHiBlue == 94

\* color.New(attr).Fprintf(w, text): the escape sequences around the text,
\* unless color.NoColor is set. "ESC" stands for the byte 0x1b.
Colored(attr, text, plain) ==
  IF plain THEN Sprintf(text, <<>>)
  ELSE <<"ESC">> \o <<"[">> \o Itoa(attr) \o <<"m">> \o Sprintf(text, <<>>) \o <<"ESC">> \o <<"[","0","m">>

SeverityTag(vset, plain) ==
  IF anyErr(vset) THEN Colored(FgHiRed, TagError, plain)
  ELSE Colored(FgHiBlue, TagInfo, plain)

\* dtFormat with the microsecond time taking precedence over the whole-second time
TimeLayoutMicroFirst(flag) ==
  LET d == IF HasFlag(flag, Ldate) THEN <<"2","0","0","6","/","0","1","/","0","2"," ">> ELSE <<>>
  IN  IF HasFlag(flag, Lmicroseconds) THEN d \o <<"1","5",":","0","4",":","0","5",".","0","0","0","0","0","0">>
      ELSE IF HasFlag(flag, Ltime) THEN d \o <<"1","5",":","0","4",":","0","5">>
      ELSE d

\* dtFormat as lines 216-228 build it
TimeLayout(flag) ==
  LET d == IF HasFlag(flag, Ldate) THEN <<"2","0","0","6","/","0","1","/","0","2"," ">> ELSE <<>>
  IN  IF HasFlag(flag, Ltime) THEN d \o <<"1","5",":","0","4",":","0","5">>
      ELSE IF HasFlag(flag, Lmicroseconds) THEN d \o <<"1","5",":","0","4",":","0","5",".","0","0","0","0","0","0">>
      ELSE d

TimestampSegment(flag, now, zone) ==
  IF HasAny(flag, {Ldate, Ltime, Lmicroseconds})
  THEN LET dt == IF HasFlag(flag, LUTC) THEN CivilAt(now, 0) ELSE CivilAt(now, zone)
       IN  Sprintf(<<" ","%","v">>, <<StrVal(FormatTime(TrimSpace(TimeLayout(flag)), dt))>>)
  ELSE <<>>

\* the loop of lines 238-244: the text after the last '/' that is not at index 0
ShortName(fileName) ==
  LET hits == {i \in 1 .. (Len(fileName) - 1) : fileName[i + 1] = "/"}
  IN  IF hits = {} THEN fileName
      ELSE SliceFrom(fileName, (CHOOSE i \in hits : \A j \in hits : j <= i) + 1)

\* " %s:%02d %s()", and for Lshortfile the name itself used as the format
RenderFrame(flag, h) ==
  IF HasFlag(flag, LCaller)
  THEN <<" ">> \o h.fileName \o <<":">> \o ZeroPad(Itoa(h.fileLine), 2) \o <<" ">> \o h.funcName \o <<"(",")">>
  ELSE IF HasFlag(flag, Lshortfile)
  THEN Sprintf(<<" ">> \o ShortName(h.fileName), <<>>)
  ELSE <<>>

WantsFrame(flag) == HasAny(flag, {LCaller, Lshortfile, Llongfile})

\* the skip depth StdLogget.Printf hands to here
CallerSkip == 4

ResolveFrame(flag, stack) == IF WantsFrame(flag) THEN here(<<CallerSkip>>, stack) ELSE NoFrame

CallerSegment(flag, stack) ==
  LET h == ResolveFrame(flag, stack)
  IN  IF WantsFrame(flag) /\ h.callerErr = "nil" THEN RenderFrame(flag, h) ELSE <<>>

\* ln of the deferred closure, lines 197-202
Message(format, vset) == IF format = <<>> THEN Sprint(vset) ELSE Sprintf(format, vset)

\* fmt.Printf("%s %s", buf.Bytes(), ln)
OutputLine(bytes, ln) == Sprintf(<<"%","s"," ","%","s">>, <<StrVal(bytes), StrVal(ln)>>)

\* the deferred calls with the flush registered before the printing closure
DefersEmitFirst == <<"putBuffer", "flush", "emit">>
\* the deferred calls with putBuffer registered last, so that it runs first
DefersPutFirst == <<"emit", "flush", "putBuffer">>

\* the deferred calls of StdLogget.Printf in the order they are registered;
\* they run last to first
PrintfDefers == <<"putBuffer", "emit", "flush">>

\* ================================================================ state
VARIABLES
  sl,        \* the StdLogget behind the logger: [prefix, flag]
  out,       \* Logger.out: "sl", or "nil" for a nil *StdLogget given to SetOutput
  plain,     \* color.NoColor
  zone,      \* the process's time zone, hours east of UTC
  pool,      \* bufferPool: the buffers that are in the pool
  bufs,      \* the bytes of every bytes.Buffer
  created,   \* buffers bufferPool.New has made
  drops,     \* buffers the pool has dropped (sync.Pool may, at any time)
  pc,        \* per goroutine: idle, body, defers, ret, done
  call,      \* per goroutine: the facade call in progress
  w,         \* per goroutine: the bytes held by the bufio.Writer
  buf,       \* per goroutine: the buffer getBuffer returned (0: none)
  defers,    \* per goroutine: the deferred calls of Printf still to run
  panicking, \* per goroutine: a run-time panic is unwinding Printf
  written,   \* per goroutine: the writes to os.Stdout of the current call
  frame,     \* per goroutine: what here returned to the current call
  result,    \* per goroutine: how the facade call ended
  ncalls,    \* per goroutine: facade calls begun
  puts,      \* per goroutine: putBuffer calls of the current call
  exited,    \* os.Exit was called
  overlap    \* two render calls have been in flight at once

logger == <<sl, out>>
env == <<plain, zone>>
pooled == <<pool, bufs, created, drops>>
percall == <<call, w, buf, defers, panicking, written, frame, result, puts>>
vars == <<sl, out, plain, zone, pool, bufs, created, drops, pc, call, w, buf, defers,
          panicking, written, frame, result, ncalls, puts, exited, overlap>>

\* ---------------------------------------------------------------- inputs
ValA == StrVal(<<"a">>)
ValN == IntVal(14)
ValE == ErrVal(<<"B","O","O","M">>)
Values == {ValA, ValN, ValE}
ArgLists(n) == UNION {[1 .. k -> Values] : k \in 0 .. n}

Formats == {<<>>, <<"%","v">>, <<"%","s",":","%","d">>, <<"o","k">>}

Noon == [year |-> 2009, month |-> 1, day |-> 23, hour |-> 12, min |-> 4, sec |-> 5, usec |-> 4567]
Late == [year |-> 2011, month |-> 11, day |-> 10, hour |-> 23, min |-> 59, sec |-> 0, usec |-> 0]
Clocks == {Noon, Late}

Prefixes == {<<>>, <<"a","p","p",":"," ">>}

GoExit == [fn |-> <<"r","u","n","t","i","m","e",".","g","o","e","x","i","t">>, file |-> <<"/","g","o","/","r","u","n","t","i","m","e","/","a","s","m",".","s">>, line |-> 1650]
RtMain == [fn |-> <<"r","u","n","t","i","m","e",".","m","a","i","n">>, file |-> <<"/","g","o","/","r","u","n","t","i","m","e","/","p","r","o","c",".","g","o">>, line |-> 250]
FooSite == [fn |-> <<"m","a","i","n",".","F","o","o">>, file |-> <<"/","w","/","a","p","p","/","b","a","r",".","g","o">>, line |-> 42]
MainSite == [fn |-> <<"m","a","i","n",".","m","a","i","n">>, file |-> <<"/","m","a","i","n",".","g","o">>, line |-> 7]
RunSite == [fn |-> <<"a","p","p","/","s","r","v",".","(","*","T",")",".","R","u","n">>, file |-> <<"/","w","/","s","r","v","/","a","%","v",".","g","o">>, line |-> 5]

\* stacks above the library whose first frame is the user's call site
UserStacks ==
  { <<FooSite, MainSite, RtMain, GoExit>>,
    <<MainSite, RtMain, GoExit>>,
    <<RunSite, GoExit>> }
\* the facade function started by a go statement: no user frame above it
GoStmtStack == <<GoExit>>
Stacks == UserStacks \cup {GoStmtStack}

NoCall == [op |-> "none", entry |-> "none", format |-> <<>>, v |-> <<>>,
           now |-> Noon, ustack |-> <<>>, skip |-> <<>>]
NoResult == [kind |-> "none", value |-> <<>>]

StackOf(c) == EngineFrames(c.op, c.entry) \o c.ustack

InFlight(g) == pc[g] \in {"body", "defers"}

\* ------------------------------------------------------------------ init
InitOf(G, Zones, Plains) ==
  /\ sl = [prefix |-> <<>>, flag |-> LCaller + Ldate + Ltime]
  /\ out = "sl"
  /\ plain \in Plains
  /\ zone \in Zones
  /\ pool = {}
  /\ bufs = [b \in 1 .. MaxBuffers |-> <<>>]
  /\ created = 0
  /\ drops = 0
  /\ pc = [g \in G |-> "idle"]
  /\ call = [g \in G |-> NoCall]
  /\ w = [g \in G |-> <<>>]
  /\ buf = [g \in G |-> 0]
  /\ defers = [g \in G |-> <<>>]
  /\ panicking = [g \in G |-> FALSE]
  /\ written = [g \in G |-> <<>>]
  /\ frame = [g \in G |-> NoFrame]
  /\ result = [g \in G |-> NoResult]
  /\ ncalls = [g \in G |-> 0]
  /\ puts = [g \in G |-> 0]
  /\ exited = FALSE
  /\ overlap = FALSE

\* --------------------------------------------------------------- setters
\* The setters are not synchronized (line 152): the client calls them between
\* its calls, while every goroutine is idle. On a nil *StdLogget they fault
\* and change nothing.
Quiet == \A g \in DOMAIN pc : pc[g] = "idle"

SetFlags(flag) ==
  /\ ~exited /\ Quiet /\ out = "sl"
  /\ sl' = [sl EXCEPT !.flag = flag]
  /\ UNCHANGED <<out, env, pooled, pc, percall, ncalls, exited, overlap>>

SetPrefix(prefix) ==
  /\ ~exited /\ Quiet /\ out = "sl"
  /\ sl' = [sl EXCEPT !.prefix = prefix]
  /\ UNCHANGED <<out, env, pooled, pc, percall, ncalls, exited, overlap>>

SetOutput(o) ==
  /\ ~exited /\ Quiet
  /\ out' = o
  /\ UNCHANGED <<sl, env, pooled, pc, percall, ncalls, exited, overlap>>

\* ----------------------------------------------------------- buffer pool
\* sync.Pool drops an idle buffer (a garbage collection)
PoolDrop ==
  /\ ~exited
  /\ created < MaxBuffers
  /\ \E b \in pool :
       /\ pool' = pool \ {b}
       /\ bufs' = [bufs EXCEPT ![b] = <<>>]
  /\ drops' = drops + 1
  /\ UNCHANGED <<logger, env, created, pc, percall, ncalls, exited, overlap>>

\* getBuffer: a pooled buffer, or a new one when the pool is empty; Reset.
\* The result is the set of outcomes [id, pool, created, bufs].
getBuffer ==
  IF pool # {}
  THEN {[id |-> b, pool |-> pool \ {b}, created |-> created,
         bufs |-> [bufs EXCEPT ![b] = <<>>]] : b \in pool}
  ELSE IF created < MaxBuffers
  THEN {[id |-> created + 1, pool |-> pool, created |-> created + 1,
         bufs |-> [bufs EXCEPT ![created + 1] = <<>>]]}
  ELSE {}

\* putBuffer that leaves the buffer out of the pool
putBufferLost(b) == pool

\* putBuffer
putBuffer(b) == pool \cup {b}

\* ----------------------------------------------------------- render call
\* A facade call up to the first statements of StdLogget.Printf: the buffer
\* is taken, the three deferred calls are registered, the bufio.Writer made.
Begin(g, op, entry, format, v, now, ustack) ==
  /\ ~exited
  /\ pc[g] = "idle"
  /\ ncalls[g] < MaxCalls
  /\ \E got \in getBuffer :
       /\ buf' = [buf EXCEPT ![g] = got.id]
       /\ pool' = got.pool
       /\ created' = got.created
       /\ bufs' = got.bufs
  /\ call' = [call EXCEPT ![g] = [op |-> op, entry |-> entry, format |-> format,
                                  v |-> v, now |-> now, ustack |-> ustack,
                                  skip |-> <<CallerSkip>>]]
  /\ defers' = [defers EXCEPT ![g] = PrintfDefers]
  /\ w' = [w EXCEPT ![g] = <<>>]
  /\ written' = [written EXCEPT ![g] = <<>>]
  /\ frame' = [frame EXCEPT ![g] = NoFrame]
  /\ result' = [result EXCEPT ![g] = NoResult]
  /\ puts' = [puts EXCEPT ![g] = 0]
  /\ panicking' = [panicking EXCEPT ![g] = FALSE]
  /\ pc' = [pc EXCEPT ![g] = "body"]
  /\ ncalls' = [ncalls EXCEPT ![g] = @ + 1]
  /\ overlap' = (overlap \/ \E h \in DOMAIN pc : h # g /\ InFlight(h))
  /\ UNCHANGED <<logger, env, drops, exited>>

\* the prefix segments with sl.prefix written first, as log.Logger does
PrefixWritten(s, c) ==
  s.prefix
  \o SeverityTag(PrintfArgs(c.op, c.v), plain)
  \o TimestampSegment(s.flag, c.now, zone)
  \o CallerSegment(s.flag, StackOf(c))

\* what lines 209-249 write to the bufio.Writer, given the receiver
Prefix(s, c) ==
  SeverityTag(PrintfArgs(c.op, c.v), plain)
  \o TimestampSegment(s.flag, c.now, zone)
  \o CallerSegment(s.flag, StackOf(c))

\* Lines 209-249. With a nil receiver the tag is written and the read of
\* sl.flag on line 215 faults; the deferred calls run either way.
Body(g) ==
  /\ ~exited
  /\ pc[g] = "body"
  /\ IF out = "nil"
     THEN /\ w' = [w EXCEPT ![g] = SeverityTag(PrintfArgs(call[g].op, call[g].v), plain)]
          /\ panicking' = [panicking EXCEPT ![g] = TRUE]
          /\ UNCHANGED frame
     ELSE /\ w' = [w EXCEPT ![g] = Prefix(sl, call[g])]
          /\ frame' = [frame EXCEPT ![g] = ResolveFrame(sl.flag, StackOf(call[g]))]
          /\ UNCHANGED panicking
  /\ pc' = [pc EXCEPT ![g] = "defers"]
  /\ UNCHANGED <<logger, env, pooled, call, buf, defers, written, result, puts,
                 ncalls, exited, overlap>>

\* The next deferred call, last registered first: w.Flush(), the closure that
\* prints the line, putBuffer(buf). Printf returns after the last of them.
Defer(g) ==
  /\ ~exited
  /\ pc[g] = "defers"
  /\ defers[g] # <<>>
  /\ LET d == defers[g][Len(defers[g])]
         c == call[g]
     IN  /\ defers' = [defers EXCEPT ![g] = SubSeq(@, 1, Len(@) - 1)]
         /\ pc' = [pc EXCEPT ![g] = IF Len(defers[g]) = 1 THEN "ret" ELSE "defers"]
         /\ CASE d = "flush" ->
                   /\ bufs' = [bufs EXCEPT ![buf[g]] = @ \o w[g]]
                   /\ w' = [w EXCEPT ![g] = <<>>]
                   /\ UNCHANGED <<pool, written, puts>>
              [] d = "emit" ->
                   /\ written' = [written EXCEPT ![g] =
                        Append(@, OutputLine(bufs[buf[g]],
                                  Message(PrintfFormat(c.op, c.format), PrintfArgs(c.op, c.v))))]
                   /\ UNCHANGED <<pool, bufs, w, puts>>
              [] d = "putBuffer" ->
                   /\ pool' = putBuffer(buf[g])
                   /\ puts' = [puts EXCEPT ![g] = @ + 1]
                   /\ UNCHANGED <<bufs, w, written>>
  /\ UNCHANGED <<logger, env, created, drops, call, buf, panicking, frame, result,
                 ncalls, exited, overlap>>

\* Back in the Logger method: a run-time panic goes on to the caller; Fatal*
\* calls os.Exit(1); Panic* panics with the text it formats itself.
Finish(g) ==
  /\ ~exited
  /\ pc[g] = "ret"
  /\ LET c == call[g]
     IN  /\ result' = [result EXCEPT ![g] =
               IF panicking[g] THEN [kind |-> "fault", value |-> <<>>]
               ELSE IF c.op \in FatalOps THEN [kind |-> "exit", value |-> <<"1">>]
               ELSE IF c.op \in PanicOps
               THEN [kind |-> "panic", value |-> PanicValue(c.op, c.format, c.v)]
               ELSE [kind |-> "return", value |-> <<>>]]
         /\ exited' = (~panicking[g] /\ c.op \in FatalOps)
  /\ pc' = [pc EXCEPT ![g] = "done"]
  /\ UNCHANGED <<logger, env, pooled, call, w, buf, defers, panicking, written, frame,
                 puts, ncalls, overlap>>

\* the caller goes on (a panic was recovered by it) and may call again
Return(g) ==
  /\ ~exited
  /\ pc[g] = "done"
  /\ ncalls[g] < MaxCalls
  /\ pc' = [pc EXCEPT ![g] = "idle"]
  /\ call' = [call EXCEPT ![g] = NoCall]
  /\ written' = [written EXCEPT ![g] = <<>>]
  /\ frame' = [frame EXCEPT ![g] = NoFrame]
  /\ result' = [result EXCEPT ![g] = NoResult]
  /\ buf' = [buf EXCEPT ![g] = 0]
  /\ puts' = [puts EXCEPT ![g] = 0]
  /\ panicking' = [panicking EXCEPT ![g] = FALSE]
  /\ UNCHANGED <<logger, env, pooled, w, defers, ncalls, exited, overlap>>

\* the test's own call of here (TestHere): stack[1] is here's frame
TestHere(g, skip, stack) ==
  /\ ~exited
  /\ pc[g] = "idle"
  /\ call' = [call EXCEPT ![g] = [NoCall EXCEPT !.op = "here", !.skip = skip, !.ustack = stack]]
  /\ frame' = [frame EXCEPT ![g] = here(skip, stack)]
  /\ pc' = [pc EXCEPT ![g] = "done"]
  /\ UNCHANGED <<logger, env, pooled, w, buf, defers, panicking, written, result, puts,
                 ncalls, exited, overlap>>

\* ======================================================== specifications
\* A format operand exists only in Printf, Fatalf and Panicf.
FormatsOf(op, formats) == IF op \in FormatOps THEN formats ELSE {<<>>}

Main == {1}
Goroutines == {1, 2}

\* ---- Spec: one goroutine, every facade operation, formats and arguments wide
FewFlags == {0, LCaller + Ldate + Ltime}

Init == InitOf(Main, {2}, BOOLEAN)

Next ==
  \/ \E f \in FewFlags : SetFlags(f)
  \/ \E p \in Prefixes : SetPrefix(p)
  \/ \E o \in {"sl", "nil"} : SetOutput(o)
  \/ \E op \in AllOps, v \in ArgLists(MaxArgs) :
       \E format \in FormatsOf(op, Formats) :
         Begin(1, op, "package", format, v, Noon, <<FooSite, MainSite, RtMain, GoExit>>)
  \/ Body(1)
  \/ Defer(1)
  \/ Finish(1)

Spec == Init /\ [][Next]_vars

\* ---- SpecFlags: one goroutine, every flag value, clocks and call stacks wide
InitFlags == InitOf(Main, {2}, {FALSE})

NextFlags ==
  \/ \E f \in AllFlags : SetFlags(f)
  \/ \E op \in AllOps, entry \in {"package", "method"}, now \in Clocks, ustack \in Stacks :
       \E format \in FormatsOf(op, {<<"%","v">>}) : Begin(1, op, entry, format, <<ValA>>, now, ustack)
  \/ Body(1)
  \/ Defer(1)
  \/ Finish(1)

SpecFlags == InitFlags /\ [][NextFlags]_vars

\* ---- SpecConc: two goroutines that call again and again, the pool shared
InitConc == InitOf(Goroutines, {0}, {TRUE})

NextConc ==
  \/ \E o \in {"sl", "nil"} : SetOutput(o)
  \/ \E g \in Goroutines, op \in {"Print", "Fatalf"}, v \in {<<ValA>>, <<ValN, ValE>>} :
       \E format \in FormatsOf(op, {<<"%","v">>}) :
         Begin(g, op, "package", format, v, Noon, <<MainSite, RtMain, GoExit>>)
  \/ \E g \in Goroutines : Body(g)
  \/ \E g \in Goroutines : Defer(g)
  \/ \E g \in Goroutines : Finish(g)
  \/ \E g \in Goroutines : Return(g)
  \/ PoolDrop

SpecConc == InitConc /\ [][NextConc]_vars

\* ---- SpecHere: here called directly, as TestHere does, over names and paths
\* A source file by its path elements; abs: the path starts at the root.
PathFrom(elems, i) ==
  LET RECURSIVE join(_)
      join(k) == IF k > Len(elems) THEN <<>>
                 ELSE elems[k] \o (IF k < Len(elems) THEN <<"/">> ELSE <<>>) \o join(k + 1)
  IN  join(i)
PathOf(f) == (IF f.abs THEN <<"/">> ELSE <<>>) \o PathFrom(f.elems, 1)

TestFiles ==
  { [elems |-> <<<<"g","o">>, <<"l","o","g","t">>, <<"l","o","g","t","_","t","e","s","t",".","g","o">>>>, abs |-> TRUE],
    [elems |-> <<<<"l","o","g","t">>, <<"a",".","g","o">>>>, abs |-> TRUE],
    [elems |-> <<<<"l","o","g","t">>, <<"a",".","g","o">>>>, abs |-> FALSE],
    [elems |-> <<<<"m","a","i","n",".","g","o">>>>, abs |-> TRUE],
    [elems |-> <<<<"m","a","i","n",".","g","o">>>>, abs |-> FALSE] }

\* function identifiers as the run time names them: package-qualified names,
\* methods, closures; and a symbol without a package, and one ending in '.'
TestNames ==
  { <<"l","o","g","t",".","T","e","s","t","H","e","r","e">>, <<"a",".","b","/","l","o","g","t",".","(","*","T",")",".","R","u","n">>, <<"m","a","i","n",".","m","a","i","n",".","f","u","n","c","1">>, <<"m","a","i","n",".","i","n","i","t">>,
    <<"g","o","g","o">>, <<"p","k","g",".">> }

TestLines == {1, 7, 120}

TestFrames == {[fn |-> n, file |-> PathOf(f), line |-> l] :
                 n \in TestNames, f \in TestFiles, l \in TestLines}

HereFrame == [fn |-> <<"l","o","g","t",".","h","e","r","e">>, file |-> SourceFile, line |-> 135]

TestStacks == {<<HereFrame, f>> : f \in TestFrames}
              \cup {<<HereFrame, f, GoExit>> : f \in TestFrames}

TestSkips == {<<>>, <<0>>, <<1>>, <<2>>, <<3>>}

InitHere == InitOf(Main, {0}, {TRUE})

NextHere == \E skip \in TestSkips, stack \in TestStacks : TestHere(1, skip, stack)

SpecHere == InitHere /\ [][NextHere]_vars

\* ================================================================ claims
Vset(c) == PrintfArgs(c.op, c.v)
Fmt(c) == PrintfFormat(c.op, c.format)
Rendered(g) == pc[g] \in {"ret", "done"} /\ call[g].op \in AllOps
G == DOMAIN pc

\* the seven characters of the tag, after the colour escape when there is one
TagAt(line) == IF plain THEN SubSeq(line, 1, 7) ELSE SubSeq(line, 6, 12)
HasErrorArg(c) == \E i \in 1 .. Len(Vset(c)) : Vset(c)[i].t = "error"

\* C1: the tag of every emitted line is "[error]" exactly when some argument
\* handed to StdLogget.Printf is an error value, and "[info ]" otherwise,
\* wherever the error stands and whether or not there is a format string.
C1_TagIffError ==
  \A g \in G : Rendered(g) =>
    /\ Len(written[g]) = 1
    /\ TagAt(written[g][1]) = (IF HasErrorArg(call[g]) THEN <<"[","e","r","r","o","r","]">> ELSE <<"[","i","n","f","o"," ","]">>)

C1_Witness ==
  \E g \in G :
    /\ pc[g] = "done" /\ call[g].op = "Printf" /\ call[g].format # <<>>
    /\ Len(call[g].v) = 2 /\ call[g].v[1].t = "string" /\ call[g].v[2].t = "error"
    /\ TagAt(written[g][1]) = <<"[","e","r","r","o","r","]">>

\* what a render call emits: the prefix the receiver allows, a space, the message
LineOf(g) ==
  (IF panicking[g] THEN SeverityTag(Vset(call[g]), plain)
   ELSE SeverityTag(Vset(call[g]), plain)
        \o TimestampSegment(sl.flag, call[g].now, zone)
        \o CallerSegment(sl.flag, StackOf(call[g])))
  \o <<" ">> \o Message(Fmt(call[g]), Vset(call[g]))

\* C2: a call of Print, Printf or Println writes to standard output exactly once,
\* and the one write is the whole line: tag, timestamp segment, caller segment,
\* a space, the message (the flush has run before the write reads the buffer).
C2_OneWriteWholeLine ==
  \A g \in G :
    /\ Len(written[g]) <= 1
    /\ (Rendered(g) /\ call[g].op \in PrintOps) => written[g] = <<LineOf(g)>>

C2_Witness ==
  \E g \in G :
    /\ pc[g] = "done" /\ call[g].op = "Println" /\ out = "sl"
    /\ sl.flag = LCaller + Ldate + Ltime
    /\ written[g] = <<LineOf(g)>>
    /\ Contains(written[g][1], <<" ","a","p","p","/","b","a","r",".","g","o",":","4","2"," ","F","o","o","(",")"," ","a">>)

\* C3: after Panic, Panicf or Panicln the line has been emitted and the panic
\* carries exactly the text of the line's message segment, for every format
\* string, the empty one included.
C3_PanicCarriesMessage ==
  \A g \in G : (pc[g] = "done" /\ result[g].kind = "panic") =>
    /\ result[g].value = Message(Fmt(call[g]), Vset(call[g]))
    /\ written[g] = <<Prefix(sl, call[g]) \o <<" ">> \o result[g].value>>

\* C4: no buffer is held by two render calls in flight, a call in flight (its
\* deferred flush and write included) holds a buffer that is not in the pool,
\* and the line a call emits holds the segments of that call alone.
C4_BufferExclusive ==
  /\ \A g, h \in G : (g # h /\ InFlight(g) /\ InFlight(h)) => buf[g] # buf[h]
  /\ \A g \in G : InFlight(g) => buf[g] \notin pool
  /\ \A g \in G : Rendered(g) => written[g] = <<LineOf(g)>>

C4_Witness ==
  \E g, h \in G :
    /\ g # h /\ pc[g] = "done" /\ pc[h] = "defers" /\ overlap
    /\ ncalls[g] = 2 /\ ncalls[h] = 2
    /\ call[g].v # call[h].v
    /\ buf[h] # buf[g]
    /\ written[g] = <<LineOf(g)>>

Outside == created - drops - Cardinality(pool)
Lifecycle ==
  /\ \A g \in G : pc[g] = "body" => bufs[buf[g]] = <<>>
  /\ \A g \in G : InFlight(g) => puts[g] = 0
  /\ \A g \in G : pc[g] \in {"ret", "done"} => puts[g] = 1
  /\ Outside = Cardinality({g \in G : InFlight(g)})

C6_ResolvesCallSite ==
  \A g \in G :
    (Rendered(g) /\ WantsFrame(sl.flag) /\ call[g].ustack \in UserStacks) =>
      frame[g] = here(<<1>>, <<HereFrame, Head(call[g].ustack)>>)

Two(n) == ZeroPad(Itoa(n), 2)
DateText(c) == ZeroPad(Itoa(c.year), 4) \o <<"/">> \o Two(c.month) \o <<"/">> \o Two(c.day)
ClockText(c) == Two(c.hour) \o <<":">> \o Two(c.min) \o <<":">> \o Two(c.sec)
MicroText(c) == ClockText(c) \o <<".">> \o ZeroPad(Itoa(c.usec), 6)

ExpectedStamp(flag, c) ==
  LET d == HasFlag(flag, Ldate)
      t == IF HasFlag(flag, Ltime) THEN ClockText(c)
           ELSE IF HasFlag(flag, Lmicroseconds) THEN MicroText(c)
           ELSE <<>>
  IN  IF ~d /\ t = <<>> THEN <<>>
      ELSE <<" ">> \o (IF d THEN DateText(c) ELSE <<>>)
                \o (IF d /\ t # <<>> THEN <<" ">> ELSE <<>>) \o t

BaseNameOf(path) == SliceFrom(path, LastIndex(path, "/") + 1)

ExpectedCaller(flag, h) ==
  IF ~WantsFrame(flag) \/ h.callerErr # "nil" THEN <<>>
  ELSE IF HasFlag(flag, LCaller)
  THEN <<" ">> \o h.fileName \o <<":">> \o Two(h.fileLine) \o <<" ">> \o h.funcName \o <<"(",")">>
  ELSE IF HasFlag(flag, Lshortfile) THEN <<" ">> \o BaseNameOf(h.fileName)
  ELSE <<>>

\* C8: the caller segment is absent when no caller, short-file or long-file flag
\* is set or the frame is not resolved (the line is emitted all the same and
\* the call returns); " dir/file:line func()" when LCaller is set, whatever the
\* file flags; " file" alone, the base name, when Lshortfile is set without it.
C8_CallerSegment ==
  \A g \in G : Rendered(g) =>
    /\ ~panicking[g]
    /\ written[g] =
         << SeverityTag(Vset(call[g]), plain)
            \o TimestampSegment(sl.flag, call[g].now, zone)
            \o ExpectedCaller(sl.flag, frame[g])
            \o <<" ">> \o Message(Fmt(call[g]), Vset(call[g])) >>

AfterLastDot(name) ==
  LET dots == {i \in 1 .. Len(name) : name[i] = "."}
  IN  IF dots = {} THEN name
      ELSE LET m == CHOOSE i \in dots : \A j \in dots : j <= i
           IN  IF m = Len(name) THEN name ELSE SubSeq(name, m + 1, Len(name))

RuntimeFile == [elems |-> <<<<"g","o">>, <<"r","u","n","t","i","m","e">>, <<"a","s","m",".","s">>>>, abs |-> TRUE]

ParentAndBase(f) ==
  LET n == Len(f.elems)
  IN  IF n >= 2 THEN f.elems[n - 1] \o <<"/">> \o f.elems[n]
      ELSE IF f.abs THEN <<"/">> \o f.elems[n]
      ELSE f.elems[n]

\* C9: here names the frame of its caller (of the frame skip levels up, for a
\* skip above 1); the function name is the text after the last '.', and the
\* whole identifier when it has no '.' or ends in one; the file name is the
\* last directory and the file, and the line is the frame's, positive. When
\* the stack has no such frame here reports N/A.
C9_Here ==
  \A g \in G : (pc[g] = "done" /\ call[g].op = "here") =>
    LET c == call[g]
        sk == IF c.skip = <<>> \/ c.skip[1] <= 1 THEN 1 ELSE c.skip[1]
    IN  IF sk + 1 > Len(c.ustack) THEN frame[g] = NoFrame
        ELSE LET fr == c.ustack[sk + 1]
             IN  /\ frame[g].callerErr = "nil"
                 /\ frame[g].funcName = AfterLastDot(fr.fn)
                 /\ frame[g].fileLine = fr.line /\ frame[g].fileLine > 0
                 /\ \E f \in TestFiles \cup {RuntimeFile} :
                      /\ PathOf(f) = fr.file
                      /\ frame[g].fileName = ParentAndBase(f)

C9_Witness ==
  \E g \in G :
    /\ pc[g] = "done" /\ call[g].op = "here" /\ call[g].skip = <<1>>
    /\ frame[g].funcName = <<"T","e","s","t","H","e","r","e">>
    /\ frame[g].fileName = <<"l","o","g","t","/","l","o","g","t","_","t","e","s","t",".","g","o">>
    /\ frame[g].fileLine = 7

\* C10: the line does not depend on the prefix: with any other prefix in the
\* StdLogget the same call emits the same line; and a step that changes the
\* prefix changes nothing else.
C10_PrefixUnread ==
  /\ [](\A g \in G : (Rendered(g) /\ ~panicking[g]) =>
          \A p \in Prefixes :
            written[g] = << OutputLine(Prefix([sl EXCEPT !.prefix = p], call[g]),
                                       Message(Fmt(call[g]), Vset(call[g]))) >>)
  /\ [][sl'.prefix # sl.prefix =>
          /\ sl'.flag = sl.flag
          /\ UNCHANGED <<out, env, pooled, pc, percall, ncalls, exited, overlap>>]_vars

C10_Witness ==
  \E g \in G :
    /\ pc[g] = "done" /\ sl.prefix = <<"a","p","p",":"," ">> /\ out = "sl"
    /\ Len(written[g]) = 1
    /\ ~Contains(written[g][1], <<"a","p","p",":"," ">>)
====
